---- MODULE Spec2Model ----
(***************************************************************************)
(* Two calculators of the repository:                                      *)
(*   - calculator/__init__.py: CalculatorHistory, InputValidator and the   *)
(*     Calculator REPL (specifications Spec, FairSpec, SpecHistory,        *)
(*     SpecValidate);                                                      *)
(*   - HW8/operations.py: the expression evaluator (specifications         *)
(*     SpecEval, SpecArith) and calculate (SpecCalculate);                 *)
(*   - HW8/HW8/main.py: the /calc and /history routes over the in-memory   *)
(*     History store (SpecApi).                                            *)
(* Text is a sequence of one-character strings; a number is an exact       *)
(* rational [t, n, d] with t its Python type ("int" or "float").           *)
(***************************************************************************)
EXTENDS Integers, Sequences, FiniteSets, TLC

VARIABLES
    heap,        \* list objects: heap[SelfRef] is CalculatorHistory._history,
                 \* heap[CopyRef] the list a caller got from get_history()
    ret,         \* the list object the caller's reference points to (NoRef: none)
    added,       \* SpecHistory: the calculations passed to add_calculation
                 \* since the last clear_history, in call order
    running,     \* Calculator.running
    pc,          \* position of Calculator.start(): "idle", "loop", "returned"
    printed,     \* the last print() call
    input_calls, \* parity of the number of input() calls made by start()
    event,       \* the last operation performed and its inputs
    expr,        \* SpecEval: the expression given to evaluate_expression
    outcome,     \* SpecEval: what evaluate_expression did with it
    store,       \* HW8/main.py: History._store, the saved records in order
    request,     \* the last request to the service, or a function's arguments
    response     \* what the service answered, or what the function did

vars == <<heap, ret, added, running, pc, printed, input_calls, event, expr, outcome,
          store, request, response>>

(***************************************************************************)
(* Bounds of the model.                                                    *)
(***************************************************************************)
MaxHistory == 2      \* calculations the REPL history may hold
MaxTokens == 3       \* tokens of an expression given to evaluate_expression
MaxArithTokens == 5  \* tokens of an arithmetic expression (SpecArith)
MaxRecords == 2      \* records the History store may hold (SpecApi)
MaxPad == 2          \* blanks on each side of an operation string (SpecValidate)

(***************************************************************************)
(* Text: str.lower, str.strip, str.split                                   *)
(***************************************************************************)
UpperChars == <<"A","B","C","D","E","F","G","H","I","J","K","L","M",
                "N","O","P","Q","R","S","T","U","V","W","X","Y","Z">>
LowerChars == <<"a","b","c","d","e","f","g","h","i","j","k","l","m",
                "n","o","p","q","r","s","t","u","v","w","x","y","z">>
DigitChars == <<"0","1","2","3","4","5","6","7","8","9">>

IsSpace(c) == c \in {" ", "\t"}
IsDigit(c) == \E i \in 1..10 : DigitChars[i] = c
DigitValue(c) == (CHOOSE i \in 1..10 : DigitChars[i] = c) - 1

SetMin(S) == CHOOSE m \in S : \A k \in S : m <= k
SetMax(S) == CHOOSE m \in S : \A k \in S : m >= k

lower_char(c) ==
    IF \E i \in 1..26 : UpperChars[i] = c
    THEN LowerChars[CHOOSE i \in 1..26 : UpperChars[i] = c]
    ELSE c

upper_char(c) ==
    IF \E i \in 1..26 : LowerChars[i] = c
    THEN UpperChars[CHOOSE i \in 1..26 : LowerChars[i] = c]
    ELSE c

lower(s) == [i \in 1..Len(s) |-> lower_char(s[i])]
upper(s) == [i \in 1..Len(s) |-> upper_char(s[i])]

strip(s) ==
    LET keep == {i \in 1..Len(s) : ~IsSpace(s[i])}
    IN  IF keep = {} THEN <<>> ELSE SubSeq(s, SetMin(keep), SetMax(keep))

RECURSIVE split(_)
split(s) ==
    LET t == strip(s)
        ws == {i \in 1..Len(t) : IsSpace(t[i])}
    IN  IF t = <<>> THEN <<>>
        ELSE IF ws = {} THEN <<t>>
        ELSE <<SubSeq(t, 1, SetMin(ws) - 1)>>
                 \o split(SubSeq(t, SetMin(ws) + 1, Len(t)))

Contains(s, c) == \E i \in 1..Len(s) : s[i] = c

(***************************************************************************)
(* Numbers: exact rationals n/d in lowest terms, d > 0, tagged with the    *)
(* Python type.                                                            *)
(***************************************************************************)
Abs(x) == IF x < 0 THEN -x ELSE x

RECURSIVE Gcd(_, _)
Gcd(a, b) == IF b = 0 THEN a ELSE Gcd(b, a % b)

Rational(t, n, d) ==
    LET g == Gcd(Abs(n), Abs(d))
        s == IF d < 0 THEN -1 ELSE 1
    IN  [t |-> t, n |-> s * (n \div g), d |-> s * (d \div g)]

IntNum(n) == [t |-> "int", n |-> n, d |-> 1]

RECURSIVE Pow10(_)
Pow10(k) == IF k = 0 THEN 1 ELSE 10 * Pow10(k - 1)

RECURSIVE DigitsValue(_)
DigitsValue(s) ==
    IF s = <<>> THEN 0
    ELSE 10 * DigitsValue(SubSeq(s, 1, Len(s) - 1)) + DigitValue(s[Len(s)])

AllDigits(s) == \A i \in 1..Len(s) : IsDigit(s[i])

HasSign(s) == s # <<>> /\ s[1] \in {"+", "-"}
Unsigned(s) == IF HasSign(s) THEN Tail(s) ELSE s
SignOf(s) == IF s # <<>> /\ s[1] = "-" THEN -1 ELSE 1

NoValue == [ok |-> FALSE, val |-> IntNum(0)]

\* int(value): an optional sign and at least one decimal digit
int(s) ==
    LET u == Unsigned(s)
    IN  IF u # <<>> /\ AllDigits(u)
        THEN [ok |-> TRUE, val |-> IntNum(SignOf(s) * DigitsValue(u))]
        ELSE NoValue

\* float(value): [sign] digits [. digits] [e [sign] digits], with a digit on
\* at least one side of the point
float(s) ==
    LET u     == lower(Unsigned(s))
        es    == {i \in 1..Len(u) : u[i] = "e"}
        mant  == IF es = {} THEN u ELSE SubSeq(u, 1, SetMin(es) - 1)
        expo  == IF es = {} THEN <<>> ELSE SubSeq(u, SetMin(es) + 1, Len(u))
        ps    == {i \in 1..Len(mant) : mant[i] = "."}
        whole == IF ps = {} THEN mant ELSE SubSeq(mant, 1, SetMin(ps) - 1)
        frac  == IF ps = {} THEN <<>> ELSE SubSeq(mant, SetMin(ps) + 1, Len(mant))
        mantOk == /\ AllDigits(whole) /\ AllDigits(frac)
                  /\ whole \o frac # <<>>
        expOk  == es = {} \/ (Unsigned(expo) # <<>> /\ AllDigits(Unsigned(expo)))
        e      == IF es = {} THEN 0 ELSE SignOf(expo) * DigitsValue(Unsigned(expo))
        num    == SignOf(s) * DigitsValue(whole \o frac)
        shift  == e - Len(frac)
    IN  IF mantOk /\ expOk
        THEN [ok |-> TRUE,
              val |-> IF shift >= 0
                      THEN Rational("float", num * Pow10(shift), 1)
                      ELSE Rational("float", num, Pow10(-shift))]
        ELSE NoValue

(***************************************************************************)
(* InputValidator                                                          *)
(***************************************************************************)
\* validate_number: [ok, val] with ok = FALSE for a raised ValueError
validate_number(value0) ==
    LET value == strip(value0)
    IN  IF value = <<>> THEN NoValue
        ELSE IF ~Contains(value, ".") /\ ~Contains(lower(value), "e")
        THEN int(value)
        ELSE float(value)

valid_operations ==
    { <<"a","d","d">>, <<"s","u","b","t","r","a","c","t">>,
      <<"m","u","l","t","i","p","l","y">>, <<"d","i","v","i","d","e">>,
      <<"+">>, <<"-">>, <<"*">>, <<"/">> }

\* validate_operation returning the lower-cased string it compared
validate_operation_lowered(operation0) ==
    LET operation == strip(operation0)
    IN  IF operation = <<>>
        THEN [ok |-> FALSE, op |-> operation, err |-> "Operation cannot be empty"]
        ELSE IF lower(operation) \notin valid_operations
        THEN [ok |-> FALSE, op |-> operation, err |-> "Unsupported operation"]
        ELSE [ok |-> TRUE, op |-> lower(operation), err |-> ""]

\* validate_operation: [ok, op, err]; op is the stripped string, case kept
validate_operation(operation0) ==
    LET operation == strip(operation0)
    IN  IF operation = <<>>
        THEN [ok |-> FALSE, op |-> operation, err |-> "Operation cannot be empty"]
        ELSE IF lower(operation) \notin valid_operations
        THEN [ok |-> FALSE, op |-> operation, err |-> "Unsupported operation"]
        ELSE [ok |-> TRUE, op |-> operation, err |-> ""]

(***************************************************************************)
(* calculation.Calculation and calculation.CalculationFactory: the module  *)
(* the calculator imports. A calculation is [a, b, op, result, executed].  *)
(* The environment may make either call raise (fault), as the tests do by  *)
(* patching them.                                                          *)
(***************************************************************************)
Faults == {"none", "create_ValueError", "create_Exception",
           "execute_ValueError", "execute_Exception"}

OperationName(operation) ==
    LET o == lower(operation)
    IN  CASE o \in {<<"+">>, <<"a","d","d">>} -> "add"
          [] o \in {<<"-">>, <<"s","u","b","t","r","a","c","t">>} -> "subtract"
          [] o \in {<<"*">>, <<"m","u","l","t","i","p","l","y">>} -> "multiply"
          [] OTHER -> "divide"

ResultType(name, a, b) ==
    IF name = "divide" \/ a.t = "float" \/ b.t = "float" THEN "float" ELSE "int"

\* a op b, for b # 0 when op is divide
Arith(name, a, b) ==
    CASE name = "add" ->
           Rational(ResultType(name, a, b), a.n * b.d + b.n * a.d, a.d * b.d)
      [] name = "subtract" ->
           Rational(ResultType(name, a, b), a.n * b.d - b.n * a.d, a.d * b.d)
      [] name = "multiply" ->
           Rational(ResultType(name, a, b), a.n * b.n, a.d * b.d)
      [] OTHER ->
           Rational(ResultType(name, a, b), a.n * b.d, a.d * b.n)

\* CalculationFactory.create_calculation(num1, num2, operation)
create_calculation(num1, num2, operation, fault) ==
    [raised |-> CASE fault = "create_ValueError" -> "ValueError"
                  [] fault = "create_Exception" -> "Exception"
                  [] OTHER -> "none",
     calc |-> [a |-> num1, b |-> num2, op |-> OperationName(operation),
               result |-> IntNum(0), executed |-> FALSE]]

\* Calculation.execute(): division by zero raises ValueError
execute(calc, fault) ==
    IF fault = "execute_Exception" THEN [raised |-> "Exception", calc |-> calc]
    ELSE IF fault = "execute_ValueError" \/ (calc.op = "divide" /\ calc.b.n = 0)
    THEN [raised |-> "ValueError", calc |-> calc]
    ELSE [raised |-> "none",
          calc |-> [calc EXCEPT !.result = Arith(calc.op, calc.a, calc.b),
                                !.executed = TRUE]]

(***************************************************************************)
(* CalculatorHistory, on the list it holds                                 *)
(***************************************************************************)
NoRef == "none"
SelfRef == "_history"
CopyRef == "copy"

\* list.append in add_calculation, with the obvious slip as a mutant
add_calculation_front(_history, calculation) == <<calculation>> \o _history

add_calculation(_history, calculation) == Append(_history, calculation)

\* list.clear in clear_history
clear_history_keep_first(_history) ==
    IF _history = <<>> THEN <<>> ELSE <<_history[1]>>

clear_history(_history) == <<>>

\* the most recent calculation, None for an empty history
None == [a |-> IntNum(0), b |-> IntNum(0), op |-> "None",
         result |-> IntNum(0), executed |-> FALSE]

get_last_calculation(_history) ==
    IF _history # <<>> THEN _history[Len(_history)] ELSE None

\* __len__
len(_history) == Len(_history)

\* get_history: the whole heap after the call and the reference returned
get_history_same_list(h) == [heap |-> h, ret |-> SelfRef]

get_history(h) ==
    [heap |-> [h EXCEPT ![CopyRef] = h[SelfRef]], ret |-> CopyRef]

(***************************************************************************)
(* Calculator: a state is [history, running, printed]; printed is the last *)
(* print() call as [text, count, err].                                     *)
(***************************************************************************)
Msg(text) == [text |-> text, count |-> 0, err |-> ""]
MsgCount(text, n) == [text |-> text, count |-> n, err |-> ""]
MsgErr(text, e) == [text |-> text, count |-> 0, err |-> e]

FaultMessage(fault) ==
    CASE fault = "create_ValueError" -> "factory ValueError"
      [] fault = "create_Exception" -> "Unexpected factory error"
      [] fault = "execute_Exception" -> "Execution error"
      [] fault = "execute_ValueError" -> "execute ValueError"
      [] OTHER -> "Division by zero"

\* lines 164-176: create, execute, add to the history, print
create_and_execute_add_first(st, num1, num2, operation, fault) ==
    LET created == create_calculation(num1, num2, operation, fault)
        done    == execute(created.calc, fault)
    IN  IF created.raised = "ValueError"
        THEN [st EXCEPT !.printed = MsgErr("Calculation Error", FaultMessage(fault))]
        ELSE IF created.raised = "Exception"
        THEN [st EXCEPT !.printed =
                  MsgErr("Unexpected calculation error", FaultMessage(fault))]
        ELSE IF done.raised = "ValueError"
        THEN [st EXCEPT !.history = add_calculation(st.history, created.calc),
                        !.printed = MsgErr("Calculation Error", FaultMessage(fault))]
        ELSE IF done.raised = "Exception"
        THEN [st EXCEPT !.history = add_calculation(st.history, created.calc),
                        !.printed =
                  MsgErr("Unexpected calculation error", FaultMessage(fault))]
        ELSE [st EXCEPT !.history = add_calculation(st.history, done.calc),
                        !.printed = Msg("Result")]

create_and_execute(st, num1, num2, operation, fault) ==
    LET created == create_calculation(num1, num2, operation, fault)
        done    == execute(created.calc, fault)
    IN  IF created.raised = "ValueError"
        THEN [st EXCEPT !.printed = MsgErr("Calculation Error", FaultMessage(fault))]
        ELSE IF created.raised = "Exception"
        THEN [st EXCEPT !.printed =
                  MsgErr("Unexpected calculation error", FaultMessage(fault))]
        ELSE IF done.raised = "ValueError"
        THEN [st EXCEPT !.printed = MsgErr("Calculation Error", FaultMessage(fault))]
        ELSE IF done.raised = "Exception"
        THEN [st EXCEPT !.printed =
                  MsgErr("Unexpected calculation error", FaultMessage(fault))]
        ELSE [st EXCEPT !.history = add_calculation(st.history, done.calc),
                        !.printed = Msg("Result")]

\* _handle_calculation. Nothing reaches the outer handler ("Error processing
\* calculation"): every exception of lines 165-171 is caught by the inner ones.
_handle_calculation(st, expression, fault) ==
    LET parts == split(expression)
    IN  IF Len(parts) # 3
        THEN [st EXCEPT !.printed = Msg("Example: 5 + 3 or 10 / 2")]
        ELSE LET num1 == validate_number(parts[1])
                 operation == validate_operation(parts[2])
                 num2 == validate_number(parts[3])
             IN  IF ~num1.ok
                 THEN [st EXCEPT !.printed = MsgErr("Input Error", "not a valid number")]
                 ELSE IF ~operation.ok
                 THEN [st EXCEPT !.printed = MsgErr("Input Error", operation.err)]
                 ELSE IF ~num2.ok
                 THEN [st EXCEPT !.printed = MsgErr("Input Error", "not a valid number")]
                 ELSE create_and_execute(st, num1.val, num2.val, operation.op, fault)

_handle_exit(st) ==
    [st EXCEPT !.printed = Msg("Thank you for using the calculator. Goodbye!"),
               !.running = FALSE]

_handle_help(st) == [st EXCEPT !.printed = Msg("Calculator Help")]

_handle_history(st) ==
    IF len(st.history) = 0
    THEN [st EXCEPT !.printed = Msg("No calculations in history.")]
    ELSE [st EXCEPT !.printed = MsgCount("history entry", len(st.history))]

\* the count is taken before the list is cleared
_handle_clear_history_count_after(st) ==
    LET cleared == clear_history(st.history)
    IN  [st EXCEPT !.history = cleared,
                   !.printed = MsgCount("Cleared", len(cleared))]

_handle_clear_history(st) ==
    LET count == len(st.history)
    IN  [st EXCEPT !.history = clear_history(st.history),
                   !.printed = MsgCount("Cleared", count)]

W_exit == <<"e","x","i","t">>
W_quit == <<"q","u","i","t">>
W_q == <<"q">>
W_help == <<"h","e","l","p">>
W_h == <<"h">>
W_qmark == <<"?">>
W_history == <<"h","i","s","t","o","r","y">>
W_hist == <<"h","i","s","t">>
W_clear == <<"c","l","e","a","r">>
W_cls == <<"c","l","s">>

\* _process_command without the lower() call
_process_command_case_sensitive(st, command, fault) ==
    IF command \in {W_exit, W_quit, W_q} THEN _handle_exit(st)
    ELSE IF command \in {W_help, W_h, W_qmark} THEN _handle_help(st)
    ELSE IF command \in {W_history, W_hist} THEN _handle_history(st)
    ELSE IF command \in {W_clear, W_cls} THEN _handle_clear_history(st)
    ELSE _handle_calculation(st, command, fault)

_process_command(st, command, fault) ==
    LET command_lower == lower(command)
    IN  IF command_lower \in {W_exit, W_quit, W_q} THEN _handle_exit(st)
        ELSE IF command_lower \in {W_help, W_h, W_qmark} THEN _handle_help(st)
        ELSE IF command_lower \in {W_history, W_hist} THEN _handle_history(st)
        ELSE IF command_lower \in {W_clear, W_cls} THEN _handle_clear_history(st)
        ELSE _handle_calculation(st, command, fault)

(***************************************************************************)
(* What input() may return to the REPL                                     *)
(***************************************************************************)
CommandWords == {W_exit, W_quit, W_q, W_help, W_h, W_qmark,
                 W_history, W_hist, W_clear, W_cls}

Capitalize(w) == <<upper_char(w[1])>> \o Tail(w)

CommandLines ==
    UNION {{w, upper(w)} : w \in CommandWords}
        \cup {Capitalize(w) : w \in {W_exit, W_help, W_history, W_clear}}
        \cup {<<" ">> \o w \o <<" ", "\t">> : w \in {W_q, W_cls}}

Expression(a, op, b) == a \o <<" ">> \o op \o <<" ">> \o b

\* well-formed calculations: these reach create_calculation and execute
GoodLines ==
    { Expression(<<"5">>, <<"+">>, <<"3">>),
      Expression(<<"5">>, <<"/">>, <<"2",".","5">>),
      <<" ">> \o Expression(<<"-","3">>, <<" ","*">>, <<"\t","5">>),
      Expression(<<"1","E","1">>, <<"s","u","b","t","r","a","c","t">>, <<".","5">>),
      Expression(<<"5">>, <<"A","d","d">>, <<"3">>),
      Expression(<<"5">>, <<"/">>, <<"0">>),
      Expression(<<"5">>, <<"D","I","V","I","D","E">>, <<"0",".","0">>) }

\* three parts, one of them invalid
BadPartLines ==
    { Expression(<<"a","b","c">>, <<"+">>, <<"3">>),
      Expression(<<"5">>, <<"+">>, <<"1","e">>),
      Expression(<<"5">>, <<"%">>, <<"3">>),
      Expression(<<"5">>, <<"a","d","d","s">>, <<"3">>),
      Expression(<<"h","e","l","p">>, <<"+">>, <<"3">>) }

CalcLines == GoodLines \cup BadPartLines

BadFormatLines ==
    { <<"5"," ","+">>, <<"5","+","3">>, <<"5"," ","+"," ","3"," ","3">>,
      <<"e","x","i","t"," ","n","o","w">>, <<"c","l","e","a","r","s">> }

BlankLines == { <<>>, <<" ", "\t">> }

Lines == CommandLines \cup CalcLines \cup BadFormatLines \cup BlankLines

\* the calls of lines 166-167 are made, and so can fail, only for these
FaultsFor(line) == IF line \in GoodLines THEN Faults ELSE {"none"}

Ev(op, line, fault) == [op |-> op, line |-> line, fault |-> fault, calc |-> None]
EvCalc(op, calc) == [op |-> op, line |-> <<>>, fault |-> "none", calc |-> calc]

NoOutcome == [kind |-> "none", exc |-> "", val |-> IntNum(0)]

NoRequest == [method |-> "none", expression |-> <<>>, first |-> IntNum(0),
              last |-> IntNum(0), operator |-> "", text |-> <<>>]
NoResponse == [kind |-> "none", result |-> <<>>, operation |-> <<>>, uid |-> 0,
               detail |-> "", val |-> IntNum(0), items |-> <<>>]

Init ==
    /\ heap = [r \in {SelfRef, CopyRef} |-> <<>>]
    /\ ret = NoRef
    /\ added = <<>>
    /\ running = FALSE
    /\ pc = "idle"
    /\ printed = Msg("")
    /\ input_calls = 0
    /\ event = Ev("init", <<>>, "none")
    /\ expr = <<>>
    /\ outcome = NoOutcome
    /\ store = <<>>
    /\ request = NoRequest
    /\ response = NoResponse

(***************************************************************************)
(* Calculator.start()                                                      *)
(***************************************************************************)
\* lines 109-110
start ==
    /\ pc = "idle"
    /\ running' = TRUE
    /\ printed' = Msg("Professional Calculator")
    /\ pc' = "loop"
    /\ event' = Ev("start", <<>>, "none")
    /\ UNCHANGED <<heap, ret, added, input_calls, expr, outcome,
                 store, request, response>>

\* line 112 with self.running false: the loop ends and start() returns
loop_exit ==
    /\ pc = "loop" /\ ~running
    /\ pc' = "returned"
    /\ event' = Ev("loop_exit", <<>>, "none")
    /\ UNCHANGED <<heap, ret, added, running, printed, input_calls, expr, outcome,
                 store, request, response>>

\* the loop as "while True": input() is read whatever self.running says
read_line_while_true(line, fault) ==
    /\ pc = "loop"
    /\ LET user_input == strip(line)
           st == [history |-> heap[SelfRef], running |-> running,
                  printed |-> printed]
       IN  \E nx \in {IF user_input = <<>> THEN st
                 ELSE _process_command(st, user_input, fault)} :
           /\ len(nx.history) <= MaxHistory
           /\ heap' = [heap EXCEPT ![SelfRef] = nx.history]
           /\ running' = nx.running
           /\ printed' = nx.printed
    /\ input_calls' = 1 - input_calls
    /\ event' = Ev("input", line, fault)
    /\ UNCHANGED <<ret, added, pc, expr, outcome,
                 store, request, response>>

\* lines 114-118: input() returns a line
read_line(line, fault) ==
    /\ pc = "loop" /\ running
    /\ LET user_input == strip(line)
           st == [history |-> heap[SelfRef], running |-> running,
                  printed |-> printed]
       IN  \E nx \in {IF user_input = <<>> THEN st
                 ELSE _process_command(st, user_input, fault)} :
           /\ len(nx.history) <= MaxHistory
           /\ heap' = [heap EXCEPT ![SelfRef] = nx.history]
           /\ running' = nx.running
           /\ printed' = nx.printed
    /\ input_calls' = 1 - input_calls
    /\ event' = Ev("input", line, fault)
    /\ UNCHANGED <<ret, added, pc, expr, outcome,
                 store, request, response>>

\* lines 120-122: input() raises KeyboardInterrupt
input_KeyboardInterrupt ==
    /\ pc = "loop" /\ running
    /\ printed' = Msg("Exiting calculator...")
    /\ pc' = "returned"
    /\ input_calls' = 1 - input_calls
    /\ event' = Ev("KeyboardInterrupt", <<>>, "none")
    /\ UNCHANGED <<heap, ret, added, running, expr, outcome,
                 store, request, response>>

\* lines 123-125: input() raises EOFError
input_EOFError ==
    /\ pc = "loop" /\ running
    /\ printed' = Msg("Exiting calculator...")
    /\ pc' = "returned"
    /\ input_calls' = 1 - input_calls
    /\ event' = Ev("EOFError", <<>>, "none")
    /\ UNCHANGED <<heap, ret, added, running, expr, outcome,
                 store, request, response>>

\* lines 126-127: input() raises any other exception
input_Exception ==
    /\ pc = "loop" /\ running
    /\ printed' = MsgErr("Unexpected error", "Test error")
    /\ input_calls' = 1 - input_calls
    /\ event' = Ev("Exception", <<>>, "none")
    /\ UNCHANGED <<heap, ret, added, running, pc, expr, outcome,
                 store, request, response>>

Next ==
    \/ start
    \/ loop_exit
    \/ \E line \in Lines : \E fault \in FaultsFor(line) : read_line(line, fault)
    \/ input_KeyboardInterrupt
    \/ input_EOFError
    \/ input_Exception

Spec == Init /\ [][Next]_vars

\* the interpreter keeps running the loop: a step that can be taken is taken
FairSpec == Init /\ [][Next]_vars /\ WF_vars(Next)

(***************************************************************************)
(* CalculatorHistory used directly: any sequence of its calls, and a       *)
(* caller that mutates the list get_history() gave it.                     *)
(***************************************************************************)
Executed(a, operation, b) ==
    execute(create_calculation(a, b, operation, "none").calc, "none").calc

SampleCalculations ==
    { Executed(IntNum(5), <<"+">>, IntNum(3)),
      Executed(IntNum(10), <<"/">>, IntNum(4)),
      Executed(IntNum(-3), <<"*">>, IntNum(5)) }

call_add_calculation(calculation) ==
    /\ len(heap[SelfRef]) < MaxHistory
    /\ heap' = [heap EXCEPT ![SelfRef] = add_calculation(heap[SelfRef], calculation)]
    /\ added' = Append(added, calculation)
    /\ event' = EvCalc("add_calculation", calculation)
    /\ UNCHANGED <<ret, running, pc, printed, input_calls, expr, outcome,
                 store, request, response>>

call_clear_history ==
    /\ heap' = [heap EXCEPT ![SelfRef] = clear_history(heap[SelfRef])]
    /\ added' = <<>>
    /\ event' = Ev("clear_history", <<>>, "none")
    /\ UNCHANGED <<ret, running, pc, printed, input_calls, expr, outcome,
                 store, request, response>>

call_get_history ==
    /\ heap' = get_history(heap).heap
    /\ ret' = get_history(heap).ret
    /\ event' = Ev("get_history", <<>>, "none")
    /\ UNCHANGED <<added, running, pc, printed, input_calls, expr, outcome,
                 store, request, response>>

\* the caller's own list operations on the list it was given
caller_clear ==
    /\ ret # NoRef
    /\ heap' = [heap EXCEPT ![ret] = <<>>]
    /\ event' = Ev("caller_clear", <<>>, "none")
    /\ UNCHANGED <<ret, added, running, pc, printed, input_calls, expr, outcome,
                 store, request, response>>

caller_append(calculation) ==
    /\ ret # NoRef
    /\ Len(heap[ret]) <= MaxHistory
    /\ heap' = [heap EXCEPT ![ret] = Append(heap[ret], calculation)]
    /\ event' = EvCalc("caller_append", calculation)
    /\ UNCHANGED <<ret, added, running, pc, printed, input_calls, expr, outcome,
                 store, request, response>>

caller_pop ==
    /\ ret # NoRef
    /\ heap[ret] # <<>>
    /\ heap' = [heap EXCEPT ![ret] = SubSeq(heap[ret], 1, Len(heap[ret]) - 1)]
    /\ event' = Ev("caller_pop", <<>>, "none")
    /\ UNCHANGED <<ret, added, running, pc, printed, input_calls, expr, outcome,
                 store, request, response>>

NextHistory ==
    \/ \E calculation \in SampleCalculations : call_add_calculation(calculation)
    \/ call_clear_history
    \/ call_get_history
    \/ caller_clear
    \/ \E calculation \in SampleCalculations : caller_append(calculation)
    \/ caller_pop

SpecHistory == Init /\ [][NextHistory]_vars

(***************************************************************************)
(* HW8/operations.py: evaluate_expression. An expression is a sequence of  *)
(* tokens; ast.parse builds the tree by Python's grammar for them, and     *)
(* _eval_node reduces it. A result is [kind, exc, val]: kind "value" with  *)
(* val, or kind "raise" with the exception class exc.                      *)
(***************************************************************************)
IntTokens == {"0", "1", "2"}
FloatTokens == {"0.5"}
BoolTokens == {"True"}
StrTokens == {"'s'"}
NoneTokens == {"None"}
NameTokens == {"x"}
ConstantTokens == IntTokens \cup FloatTokens \cup BoolTokens \cup StrTokens
                      \cup NoneTokens
Tokens == ConstantTokens \cup NameTokens \cup {"+", "-", "*", "/", "%", "(", ")"}

\* the Python value of a constant token: [t, n, d], t the Python type
TokenValue(tok) ==
    CASE tok = "0" -> IntNum(0)
      [] tok = "1" -> IntNum(1)
      [] tok = "2" -> IntNum(2)
      [] tok = "0.5" -> Rational("float", 1, 2)
      [] tok = "True" -> [t |-> "bool", n |-> 1, d |-> 1]
      [] tok = "'s'" -> [t |-> "str", n |-> 0, d |-> 1]
      [] OTHER -> [t |-> "NoneType", n |-> 0, d |-> 1]

ParseError == [ok |-> FALSE, node |-> [type |-> "none"], rest |-> <<>>]
Parsed(node, rest) == [ok |-> TRUE, node |-> node, rest |-> rest]

RECURSIVE SkipStrings(_)
SkipStrings(toks) ==
    IF toks # <<>> /\ Head(toks) \in StrTokens THEN SkipStrings(Tail(toks))
    ELSE toks

RECURSIVE ParseExpr(_), ParseExprRest(_, _), ParseTerm(_), ParseTermRest(_, _),
          ParseFactor(_), ParsePrimary(_), ParseTrailers(_, _), ParseAtom(_)

\* atom: a constant (adjacent string literals are one constant), a name,
\* ( expr ) or the empty tuple ()
ParseAtom(toks) ==
    IF toks = <<>> THEN ParseError
    ELSE IF Head(toks) \in StrTokens
    THEN Parsed([type |-> "Constant", value |-> TokenValue(Head(toks))],
                SkipStrings(toks))
    ELSE IF Head(toks) \in ConstantTokens
    THEN Parsed([type |-> "Constant", value |-> TokenValue(Head(toks))], Tail(toks))
    ELSE IF Head(toks) \in NameTokens
    THEN Parsed([type |-> "Name"], Tail(toks))
    ELSE IF Head(toks) = "("
    THEN IF Len(toks) >= 2 /\ toks[2] = ")"
         THEN Parsed([type |-> "Tuple"], Tail(Tail(toks)))
         ELSE LET e == ParseExpr(Tail(toks))
              IN  IF e.ok /\ e.rest # <<>> /\ Head(e.rest) = ")"
                  THEN Parsed(e.node, Tail(e.rest))
                  ELSE ParseError
    ELSE ParseError

\* primary: atom followed by any number of calls ( [ [*] expr ] )
ParseTrailers(node, toks) ==
    IF toks # <<>> /\ Head(toks) = "("
    THEN IF Len(toks) >= 2 /\ toks[2] = ")"
         THEN ParseTrailers([type |-> "Call"], Tail(Tail(toks)))
         ELSE LET args == IF Len(toks) >= 2 /\ toks[2] = "*"
                          THEN Tail(Tail(toks)) ELSE Tail(toks)
                  e == ParseExpr(args)
              IN  IF e.ok /\ e.rest # <<>> /\ Head(e.rest) = ")"
                  THEN ParseTrailers([type |-> "Call"], Tail(e.rest))
                  ELSE ParseError
    ELSE Parsed(node, toks)

ParsePrimary(toks) ==
    LET a == ParseAtom(toks)
    IN  IF a.ok THEN ParseTrailers(a.node, a.rest) ELSE ParseError

\* factor: (+ | -) factor | primary
ParseFactor(toks) ==
    IF toks # <<>> /\ Head(toks) \in {"+", "-"}
    THEN LET f == ParseFactor(Tail(toks))
         IN  IF f.ok
             THEN Parsed([type |-> "UnaryOp",
                          op |-> IF Head(toks) = "+" THEN "UAdd" ELSE "USub",
                          operand |-> f.node], f.rest)
             ELSE ParseError
    ELSE ParsePrimary(toks)

BinOpName(tok) ==
    CASE tok = "+" -> "Add" [] tok = "-" -> "Sub" [] tok = "*" -> "Mult"
      [] tok = "/" -> "Div" [] OTHER -> "Mod"

\* term: factor ((* | / | %) factor)*, left-associative
ParseTermRest(left, toks) ==
    IF toks # <<>> /\ Head(toks) \in {"*", "/", "%"}
    THEN LET f == ParseFactor(Tail(toks))
         IN  IF f.ok
             THEN ParseTermRest([type |-> "BinOp", op |-> BinOpName(Head(toks)),
                                 left |-> left, right |-> f.node], f.rest)
             ELSE ParseError
    ELSE Parsed(left, toks)

ParseTerm(toks) ==
    LET f == ParseFactor(toks)
    IN  IF f.ok THEN ParseTermRest(f.node, f.rest) ELSE ParseError

\* expr: term ((+ | -) term)*, left-associative
ParseExprRest(left, toks) ==
    IF toks # <<>> /\ Head(toks) \in {"+", "-"}
    THEN LET t == ParseTerm(Tail(toks))
         IN  IF t.ok
             THEN ParseExprRest([type |-> "BinOp", op |-> BinOpName(Head(toks)),
                                 left |-> left, right |-> t.node], t.rest)
             ELSE ParseError
    ELSE Parsed(left, toks)

ParseExpr(toks) ==
    LET t == ParseTerm(toks)
    IN  IF t.ok THEN ParseExprRest(t.node, t.rest) ELSE ParseError

\* ast.parse(expr, mode="eval"): an Expression node, or SyntaxError (ok FALSE)
ast_parse(toks) ==
    LET e == ParseExpr(toks)
    IN  IF e.ok /\ e.rest = <<>>
        THEN Parsed([type |-> "Expression", body |-> e.node], <<>>)
        ELSE ParseError

Value(v) == [kind |-> "value", exc |-> "", val |-> v]
Raise(exc) == [kind |-> "raise", exc |-> exc, val |-> IntNum(0)]

\* int for bool and int operands, float as soon as one is a float
NumType(a, b) == IF a.t = "float" \/ b.t = "float" THEN "float" ELSE "int"

\* operator.floordiv in the place of operator.truediv
ApplyOp_floordiv(op, a, b) ==
    CASE op = "Add" -> Value(Rational(NumType(a, b), a.n * b.d + b.n * a.d, a.d * b.d))
      [] op = "Sub" -> Value(Rational(NumType(a, b), a.n * b.d - b.n * a.d, a.d * b.d))
      [] op = "Mult" -> Value(Rational(NumType(a, b), a.n * b.n, a.d * b.d))
      [] OTHER -> IF b.n = 0 THEN Raise("ZeroDivisionError")
                  ELSE Value(Rational(NumType(a, b),
                                      (a.n * b.d) \div (a.d * b.n), 1))

\* _OPS[op_type](left, right); truediv by zero raises ZeroDivisionError
ApplyOp(op, a, b) ==
    CASE op = "Add" -> Value(Rational(NumType(a, b), a.n * b.d + b.n * a.d, a.d * b.d))
      [] op = "Sub" -> Value(Rational(NumType(a, b), a.n * b.d - b.n * a.d, a.d * b.d))
      [] op = "Mult" -> Value(Rational(NumType(a, b), a.n * b.n, a.d * b.d))
      [] OTHER -> IF b.n = 0 THEN Raise("ZeroDivisionError")
                  ELSE Value(Rational("float", a.n * b.d, a.d * b.n))

_OPS == {"Add", "Sub", "Mult", "Div"}

RECURSIVE _eval_node(_)
_eval_node(node) ==
    IF node.type = "Expression" THEN _eval_node(node.body)
    ELSE IF node.type = "BinOp"
    THEN LET left == _eval_node(node.left)
         IN  IF left.kind = "raise" THEN left
             ELSE LET right == _eval_node(node.right)
                  IN  IF right.kind = "raise" THEN right
                      ELSE IF node.op \in _OPS
                      THEN ApplyOp(node.op, left.val, right.val)
                      ELSE Raise("ValueError")
    ELSE IF node.type = "UnaryOp" /\ node.op \in {"UAdd", "USub"}
    THEN LET val == _eval_node(node.operand)
         IN  IF val.kind = "raise" THEN val
             ELSE IF node.op = "UAdd"
             THEN Value(Rational(NumType(val.val, val.val), val.val.n, val.val.d))
             ELSE Value(Rational(NumType(val.val, val.val), -val.val.n, val.val.d))
    ELSE IF node.type = "Constant"
    THEN IF node.value.t \in {"int", "bool", "float"}
         THEN Value(node.value)
         ELSE Raise("ValueError")
    ELSE Raise("ValueError")

\* whatever ast.parse or _eval_node raises is logged and raised again
evaluate_expression(toks) ==
    LET node == ast_parse(toks)
    IN  IF ~node.ok THEN Raise("SyntaxError") ELSE _eval_node(node.node)

Expressions == UNION {[1..k -> Tokens] : k \in 0..MaxTokens}

InitEval ==
    /\ heap = [r \in {SelfRef, CopyRef} |-> <<>>]
    /\ ret = NoRef
    /\ added = <<>>
    /\ running = FALSE
    /\ pc = "idle"
    /\ printed = Msg("")
    /\ input_calls = 0
    /\ event = Ev("init", <<>>, "none")
    /\ expr \in Expressions
    /\ outcome = NoOutcome
    /\ store = <<>>
    /\ request = NoRequest
    /\ response = NoResponse

call_evaluate_expression ==
    /\ outcome.kind = "none"
    /\ outcome' = evaluate_expression(expr)
    /\ event' = Ev("evaluate_expression", <<>>, "none")
    /\ UNCHANGED <<heap, ret, added, running, pc, printed, input_calls, expr,
                 store, request, response>>

NextEval == call_evaluate_expression

SpecEval == InitEval /\ [][NextEval]_vars

(***************************************************************************)
(* What an input line asks for, read off the line itself                   *)
(***************************************************************************)
_history == heap[SelfRef]

IsCommand(line, words) == lower(strip(line)) \in words

\* a non-blank line that is none of the commands goes to _handle_calculation
IsCalculationInput(line) ==
    strip(line) # <<>> /\ ~IsCommand(line, CommandWords)

\* <number> <operation> <number> with valid numbers and a supported operation
WellFormed(line) ==
    LET parts == split(line)
    IN  /\ Len(parts) = 3
        /\ validate_number(parts[1]).ok
        /\ validate_operation(parts[2]).ok
        /\ validate_number(parts[3]).ok

DividesByZero(line) ==
    LET parts == split(line)
    IN  /\ OperationName(parts[2]) = "divide"
        /\ validate_number(parts[3]).val.n = 0

Succeeds(line, fault) ==
    IsCalculationInput(line) /\ WellFormed(line) /\ fault = "none"
        /\ ~DividesByZero(line)

\* the facts about every line, computed once
LineFacts ==
    [line \in Lines |->
        [calculation |-> IsCalculationInput(line),
         wellformed  |-> IsCalculationInput(line) /\ WellFormed(line),
         succeeds    |-> Succeeds(line, "none"),
         command     |-> IF IsCommand(line, CommandWords)
                         THEN lower(strip(line)) ELSE <<>>,
         parts       |-> split(line)]]

CalculationSucceeds(line, fault) == LineFacts[line].succeeds /\ fault = "none"

CalculationFails(line, fault) ==
    LineFacts[line].calculation /\ ~CalculationSucceeds(line, fault)

CommandIn(line, words) == LineFacts[line].command \in words

Line_5_div_0 == Expression(<<"5">>, <<"/">>, <<"0">>)
Line_5_div_2p5 == Expression(<<"5">>, <<"/">>, <<"2",".","5">>)

\* C1: a calculation input that does not succeed (wrong number of parts, an
\* invalid operand, an unsupported operation, a ValueError or any other
\* exception from create_calculation or execute) leaves the history as it was.
C1_FailedCalculationKeepsHistory ==
    [][(event'.op = "input" /\ CalculationFails(event'.line, event'.fault))
           => _history' = _history]_vars

\* a division by zero was entered with two calculations in the history
C1_Witness ==
    /\ event.op = "input" /\ event.line = Line_5_div_0 /\ event.fault = "none"
    /\ printed = MsgErr("Calculation Error", "Division by zero")
    /\ len(_history) = 2

\* C2: a well-formed calculation whose execution succeeds appends exactly one
\* calculation, executed, built from the two operands; the earlier entries
\* stay and get_last_calculation returns the new one.
C2_SuccessfulCalculationAppended ==
    [][(event'.op = "input" /\ CalculationSucceeds(event'.line, event'.fault))
           => LET parts == LineFacts[event'.line].parts
                  last  == get_last_calculation(_history')
              IN  /\ len(_history') = len(_history) + 1
                  /\ SubSeq(_history', 1, len(_history)) = _history
                  /\ last # None
                  /\ last.executed
                  /\ last.a = validate_number(parts[1]).val
                  /\ last.b = validate_number(parts[3]).val
                  /\ last.op = OperationName(parts[2])
                  /\ printed'.text = "Result"]_vars

\* "5 / 2.5" was entered after "5 + 3": the history holds both, 2.0 last
C2_Witness ==
    /\ event.op = "input" /\ event.line = Line_5_div_2p5
    /\ len(_history) = 2
    /\ _history[1] = Executed(IntNum(5), <<"+">>, IntNum(3))
    /\ get_last_calculation(_history).result = [t |-> "float", n |-> 2, d |-> 1]

\* C3: whenever start() has returned, running is False.
C3_ReturnedNotRunning == pc = "returned" => ~running

\* C4: when input() raises an exception other than KeyboardInterrupt and
\* EOFError (from some call on, every call, as in the test), start() prints
\* "Unexpected error" and eventually returns.
C4_UnexpectedErrorReturns ==
    <>[](event.op = "Exception") => <>(pc = "returned")

\* C5: when create_calculation raises an exception that is not a ValueError,
\* the message printed is "Error processing calculation: <error>" and the
\* history is unchanged.
C5_FactoryErrorMessage ==
    [][(/\ event'.op = "input" /\ event'.fault = "create_Exception"
        /\ LineFacts[event'.line].wellformed)
           => /\ printed' = MsgErr("Error processing calculation",
                                   "Unexpected factory error")
              /\ _history' = _history]_vars

\* C6: every error evaluate_expression raises is a ValueError, and an input
\* that is malformed or divides by zero returns no value.
C6_InvalidRaisesValueError ==
    outcome.kind # "none"
        => /\ outcome.kind = "raise" => outcome.exc = "ValueError"
           /\ ~ast_parse(expr).ok => outcome.kind = "raise"

\* C7: get_history returns the calculations added since the last clear in
\* insertion order, len() is their number, and get_last_calculation is the
\* most recently added one, None exactly when there is none.
C7_HistoryIsAddedSinceClear ==
    /\ _history = added
    /\ len(_history) = Len(added)
    /\ (event.op = "get_history" => heap[ret] = added)
    /\ (added # <<>> => get_last_calculation(_history) = added[Len(added)])
    /\ (get_last_calculation(_history) = None <=> added = <<>>)

\* two different calculations were added after a clear of a non-empty history
C7_Witness ==
    /\ event.op = "add_calculation"
    /\ Len(added) = 2 /\ added[1] # added[2]
    /\ heap[CopyRef] # <<>> /\ heap[CopyRef] # added

\* C8: clear or cls in any letter case empties the history and reports the
\* number of entries it held just before; afterwards len is 0 and
\* get_last_calculation is None.
C8_ClearEmptiesAndCounts ==
    [][(event'.op = "input" /\ CommandIn(event'.line, {W_clear, W_cls}))
           => /\ _history' = <<>>
              /\ len(_history') = 0
              /\ get_last_calculation(_history') = None
              /\ printed' = MsgCount("Cleared", len(_history))]_vars

\* CLEAR was entered and reported the two calculations it removed
C8_Witness ==
    /\ event.op = "input" /\ event.line = upper(W_clear)
    /\ printed = MsgCount("Cleared", 2)
    /\ _history = <<>>

\* C9: whatever the caller does to the list get_history returned, the
\* history's own contents, length and last calculation stay as they were.
C9_ReturnedListIsACopy ==
    [][event'.op \in {"caller_clear", "caller_append", "caller_pop"}
           => /\ _history' = _history
              /\ len(_history') = len(_history)
              /\ get_last_calculation(_history') = get_last_calculation(_history)]_vars

\* the caller emptied the list it got while the history holds two entries
C9_Witness ==
    /\ event.op = "caller_clear"
    /\ ret = CopyRef /\ heap[ret] = <<>>
    /\ len(_history) = 2

\* C10: a command in any letter case is never a calculation: exit, quit, q,
\* help, h, ?, history and hist leave the history unchanged; exit, quit and q
\* set running to False and no other command changes running.
C10_CommandDispatch ==
    [][event'.op = "input"
           => /\ CommandIn(event'.line, CommandWords \ {W_clear, W_cls})
                    => _history' = _history
              /\ CommandIn(event'.line, {W_exit, W_quit, W_q})
                    => running' = FALSE
              /\ CommandIn(event'.line, CommandWords \ {W_exit, W_quit, W_q})
                    => running' = running]_vars

\* QUIT was entered with two calculations in the history
C10_Witness ==
    /\ event.op = "input" /\ event.line = upper(W_quit)
    /\ ~running
    /\ len(_history) = 2

(***************************************************************************)
(* HW8/operations.py: calculate(first, last, operator_symbol)              *)
(***************************************************************************)
OpsName(operator_symbol) ==
    CASE operator_symbol = "+" -> "Add" [] operator_symbol = "-" -> "Sub"
      [] operator_symbol = "*" -> "Mult" [] OTHER -> "Div"

\* the operands passed in the wrong order
calculate_swapped(first, last, operator_symbol) ==
    IF operator_symbol \notin {"+", "-", "*", "/"} THEN Raise("ValueError")
    ELSE ApplyOp(OpsName(operator_symbol), last, first)

\* an exception of ops[operator_symbol] is logged and raised again
calculate(first, last, operator_symbol) ==
    IF operator_symbol \notin {"+", "-", "*", "/"} THEN Raise("ValueError")
    ELSE ApplyOp(OpsName(operator_symbol), first, last)

Float(n, d) == Rational("float", n, d)

CalculateNumbers == {IntNum(0), IntNum(1), IntNum(-4), IntNum(10),
                     Float(1, 2), Float(2, 1), Float(0, 1)}
CalculateOperators == {"+", "-", "*", "/", "^", "%", "**", "add", ""}

Request(method, expression, first, last, operator) ==
    [method |-> method, expression |-> expression, first |-> first,
     last |-> last, operator |-> operator, text |-> <<>>]

\* what a function did: kind "value" with val, or "raise" with the class
Returned(r) ==
    [NoResponse EXCEPT !.kind = r.kind, !.detail = r.exc, !.val = r.val]

InitCalculate ==
    /\ heap = [r \in {SelfRef, CopyRef} |-> <<>>]
    /\ ret = NoRef
    /\ added = <<>>
    /\ running = FALSE
    /\ pc = "idle"
    /\ printed = Msg("")
    /\ input_calls = 0
    /\ event = Ev("init", <<>>, "none")
    /\ expr = <<>>
    /\ outcome = NoOutcome
    /\ store = <<>>
    /\ request \in {Request("calculate", <<>>, f, l, o) :
                       f \in CalculateNumbers, l \in CalculateNumbers,
                       o \in CalculateOperators}
    /\ response = NoResponse

call_calculate ==
    /\ request.method = "calculate" /\ response.kind = "none"
    /\ response' = Returned(calculate(request.first, request.last, request.operator))
    /\ event' = Ev("calculate", <<>>, "none")
    /\ UNCHANGED <<heap, ret, added, running, pc, printed, input_calls, expr,
                   outcome, store, request>>

NextCalculate == call_calculate

SpecCalculate == InitCalculate /\ [][NextCalculate]_vars

\* C11: calculate returns first op last for +, -, * and /, raises ValueError
\* for every other operator symbol, and lets a division by zero reach the
\* caller as the error the arithmetic raised.
C11_CalculateAppliesOperator ==
    response.kind # "none" =>
        LET f == request.first
            l == request.last
            v == response.val
            o == request.operator
        IN  /\ o = "+" => /\ response.kind = "value"
                          /\ v.n * f.d * l.d = (f.n * l.d + l.n * f.d) * v.d
            /\ o = "-" => /\ response.kind = "value"
                          /\ v.n * f.d * l.d = (f.n * l.d - l.n * f.d) * v.d
            /\ o = "*" => /\ response.kind = "value"
                          /\ v.n * f.d * l.d = f.n * l.n * v.d
            /\ (o = "/" /\ l.n # 0) =>
                          /\ response.kind = "value"
                          /\ v.n * f.d * l.n = f.n * l.d * v.d
            /\ (o = "/" /\ l.n = 0) =>
                          /\ response.kind = "raise"
                          /\ response.detail = "ZeroDivisionError"
            /\ o \notin {"+", "-", "*", "/"} =>
                          /\ response.kind = "raise"
                          /\ response.detail = "ValueError"

\* calculate(10, -4, "/") returned -2.5
C11_Witness ==
    /\ request.first = IntNum(10) /\ request.last = IntNum(-4)
    /\ request.operator = "/"
    /\ response.kind = "value" /\ response.val = Float(-5, 2)

(***************************************************************************)
(* evaluate_expression on arithmetic over integer constants                *)
(***************************************************************************)
ArithTokens == IntTokens \cup {"+", "-", "*", "/"}
ArithExpressions == UNION {[1..k -> ArithTokens] : k \in 0..MaxArithTokens}

InitArith ==
    /\ heap = [r \in {SelfRef, CopyRef} |-> <<>>]
    /\ ret = NoRef
    /\ added = <<>>
    /\ running = FALSE
    /\ pc = "idle"
    /\ printed = Msg("")
    /\ input_calls = 0
    /\ event = Ev("init", <<>>, "none")
    /\ expr \in ArithExpressions
    /\ outcome = NoOutcome
    /\ store = <<>>
    /\ request = NoRequest
    /\ response = NoResponse

SpecArith == InitArith /\ [][NextEval]_vars

(***************************************************************************)
(* The value of an arithmetic expression by the usual rules, read off the  *)
(* tokens: an operator after a number is binary, any other is a sign; the  *)
(* last binary + or - splits the expression, else the last binary * or /,  *)
(* else a sign applies to what follows it. [ok, n, d] is the fraction n/d; *)
(* ok is FALSE for an ill-formed expression or a division by zero.         *)
(***************************************************************************)
NoFraction == [ok |-> FALSE, n |-> 0, d |-> 1]
Fraction(n, d) == [ok |-> TRUE, n |-> n, d |-> d]

BinaryAt(toks, ops) ==
    {i \in 2..Len(toks) : toks[i] \in ops /\ toks[i - 1] \in IntTokens}

Combine(tok, x, y) ==
    IF ~x.ok \/ ~y.ok THEN NoFraction
    ELSE CASE tok = "+" -> Fraction(x.n * y.d + y.n * x.d, x.d * y.d)
           [] tok = "-" -> Fraction(x.n * y.d - y.n * x.d, x.d * y.d)
           [] tok = "*" -> Fraction(x.n * y.n, x.d * y.d)
           [] OTHER -> IF y.n = 0 THEN NoFraction
                       ELSE Fraction(x.n * y.d, x.d * y.n)

RECURSIVE StandardValue(_)
StandardValue(toks) ==
    LET sums  == BinaryAt(toks, {"+", "-"})
        prods == BinaryAt(toks, {"*", "/"})
        at    == IF sums # {} THEN SetMax(sums) ELSE SetMax(prods)
    IN  IF sums # {} \/ prods # {}
        THEN Combine(toks[at], StandardValue(SubSeq(toks, 1, at - 1)),
                     StandardValue(SubSeq(toks, at + 1, Len(toks))))
        ELSE IF toks = <<>> THEN NoFraction
        ELSE IF toks[1] = "+" THEN StandardValue(Tail(toks))
        ELSE IF toks[1] = "-"
        THEN LET x == StandardValue(Tail(toks))
             IN  IF x.ok THEN Fraction(-x.n, x.d) ELSE NoFraction
        ELSE IF Len(toks) = 1 /\ toks[1] \in IntTokens
        THEN Fraction(TokenValue(toks[1]).n, 1)
        ELSE NoFraction

\* C12: for an expression of integer constants, unary + and - and binary
\* + - * /, evaluate_expression returns the value the usual precedence and
\* left-to-right association give it.
C12_EvaluatesStandardValue ==
    (outcome.kind # "none" /\ StandardValue(expr).ok)
        => /\ outcome.kind = "value"
           /\ outcome.val.n * StandardValue(expr).d
                  = StandardValue(expr).n * outcome.val.d

\* "2 - 1 / 2" is 2 - (1 / 2) = 1.5: the division binds before the subtraction
C12_Witness ==
    /\ expr = <<"2", "-", "1", "/", "2">>
    /\ outcome = Value(Float(3, 2))

(***************************************************************************)
(* HW8/main.py: the /calc and /history routes over the mock History store. *)
(* A record is [operation, result, _id]; created_at is a timestamp that no *)
(* route reads back and is left out. Request bodies arrive validated by    *)
(* the request models, which are outside this source tree: expression is a *)
(* string, first and last are numbers, operator is a string.               *)
(***************************************************************************)
DigitChar(k) == <<"0", "1", "2", "3", "4", "5", "6", "7", "8", "9">>[k + 1]

\* str(n) for a non-negative int
RECURSIVE NatText(_)
NatText(n) ==
    IF n < 10 THEN <<DigitChar(n)>> ELSE NatText(n \div 10) \o <<DigitChar(n % 10)>>

IntText(n) == IF n < 0 THEN <<"-">> \o NatText(-n) ELSE NatText(n)

\* the digits after the point of r/d, 0 <= r < d, for a fraction whose
\* decimal expansion ends (d divides a power of ten)
RECURSIVE FractionText(_, _)
FractionText(r, d) ==
    IF r = 0 THEN <<>>
    ELSE <<DigitChar((10 * r) \div d)>> \o FractionText((10 * r) % d, d)

\* repr of a float with a short exact decimal expansion: 2.0, 0.5, -2.5
FloatText(v) ==
    LET a == Abs(v.n)
    IN  (IF v.n < 0 THEN <<"-">> ELSE <<>>) \o NatText(a \div v.d) \o <<".">>
            \o (IF a % v.d = 0 THEN <<"0">> ELSE FractionText(a % v.d, v.d))

\* str() of a value evaluate_expression or calculate can return
str(v) ==
    CASE v.t = "bool" -> IF v.n = 1 THEN <<"T", "r", "u", "e">>
                         ELSE <<"F", "a", "l", "s", "e">>
      [] v.t = "float" -> FloatText(v)
      [] OTHER -> IntText(v.n)

\* str() of an operator symbol, character by character
OperatorText(operator) ==
    CASE operator = "**" -> <<"*", "*">>
      [] operator = "" -> <<>>
      [] OTHER -> <<operator>>

\* float(x) of a number
float_of_number(v) == Rational("float", v.n, v.d)

\* 4.0 -> '4', everything else by str()
_fmt(v) == IF v.t = "float" /\ v.d = 1 THEN IntText(v.n) ELSE str(v)

\* History(...).save() putting the entry first, not last
save_front(_store, operation, result, id) ==
    <<[operation |-> operation, result |-> result, _id |-> id]>> \o _store

\* History(operation, result).save(): the entry is appended to _store
save(_store, operation, result, id) ==
    Append(_store, [operation |-> operation, result |-> result, _id |-> id])

\* the exception handler's JSON answer; an exception is named by its class
error_handler(exc) == [NoResponse EXCEPT !.kind = "detail", !.detail = exc]

Responce(result, operation, uid) ==
    [NoResponse EXCEPT !.kind = "responce", !.result = result,
                       !.operation = operation, !.uid = uid]

\* the expressions GET /calc is asked for
GetExpressions ==
    {<<"2", "/", "1">>, <<"1", "/", "2">>, <<"True">>,
     <<"1", "/", "0">>, <<"1", "+">>, <<"'s'">>}

\* GET /calc saving the record before the expression is evaluated
get_calc_save_first(_store, expression, id) ==
    LET result == evaluate_expression(expression)
        saved  == save(_store, expression,
                       IF result.kind = "raise" THEN <<>> ELSE _fmt(result.val), id)
    IN  IF result.kind = "raise"
        THEN [store |-> saved, response |-> error_handler(result.exc)]
        ELSE [store |-> saved,
              response |-> Responce(_fmt(result.val), expression, id)]

\* what both /calc handlers do with the outcome of the computation: an
\* exception goes to error_handler; a value is formatted, saved and answered
calc_responce(_store, operation, result, id) ==
    IF result.kind = "raise"
    THEN [store |-> _store, response |-> error_handler(result.exc)]
    ELSE [store |-> save(_store, operation, _fmt(result.val), id),
          response |-> Responce(_fmt(result.val), operation, id)]

\* GET /calc; id is the uuid4 the new History object draws
get_calc(_store, expression, id) ==
    calc_responce(_store, expression, evaluate_expression(expression), id)

\* POST /calc
post_calc(_store, first0, op, last0, id) ==
    calc_responce(_store, str(first0) \o OperatorText(op) \o str(last0),
                  calculate(float_of_number(first0), float_of_number(last0), op),
                  id)

\* GET /history: History.objects().to_json() read back, in _store order
objects_to_json(_store) == [NoResponse EXCEPT !.kind = "history", !.items = _store]

PostFirsts == {IntNum(1)}
PostLasts == {Float(2, 1), IntNum(0)}
PostOperators == {"+", "/", "**"}

\* uuid4 draws an id no stored record has
Uuids == 1..(MaxRecords + 1)
FreshUuids == Uuids \ {store[i]._id : i \in 1..Len(store)}

InitApi ==
    /\ heap = [r \in {SelfRef, CopyRef} |-> <<>>]
    /\ ret = NoRef
    /\ added = <<>>
    /\ running = FALSE
    /\ pc = "idle"
    /\ printed = Msg("")
    /\ input_calls = 0
    /\ event = Ev("init", <<>>, "none")
    /\ expr = <<>>
    /\ outcome = NoOutcome
    /\ store = <<>>
    /\ request = NoRequest
    /\ response = NoResponse

GET_calc ==
    \E expression \in GetExpressions, id \in FreshUuids :
        \E nx \in {get_calc(store, expression, id)} :
            /\ Len(nx.store) <= MaxRecords
            /\ store' = nx.store
            /\ response' = nx.response
            /\ request' = Request("GET /calc", expression, IntNum(0), IntNum(0), "")
            /\ event' = Ev("get_calc", <<>>, "none")
            /\ UNCHANGED <<heap, ret, added, running, pc, printed, input_calls,
                           expr, outcome>>

POST_calc ==
    \E first \in PostFirsts, last \in PostLasts, op \in PostOperators,
       id \in FreshUuids :
        \E nx \in {post_calc(store, first, op, last, id)} :
            /\ Len(nx.store) <= MaxRecords
            /\ store' = nx.store
            /\ response' = nx.response
            /\ request' = Request("POST /calc", <<>>, first, last, op)
            /\ event' = Ev("post_calc", <<>>, "none")
            /\ UNCHANGED <<heap, ret, added, running, pc, printed, input_calls,
                           expr, outcome>>

GET_history ==
    /\ response' = objects_to_json(store)
    /\ request' = Request("GET /history", <<>>, IntNum(0), IntNum(0), "")
    /\ event' = Ev("get_history", <<>>, "none")
    /\ UNCHANGED <<heap, ret, added, running, pc, printed, input_calls,
                   expr, outcome, store>>

NextApi == GET_calc \/ POST_calc \/ GET_history

SpecApi == InitApi /\ [][NextApi]_vars

CalcRoutes == {"get_calc", "post_calc"}
Record(r) == [operation |-> r.operation, result |-> r.result, _id |-> r.uid]

\* C13: a /calc request answered with a result appends exactly one record,
\* earlier records stay unchanged and in place, the record holds the
\* operation and result of the response under the response's uid, which no
\* earlier record has, and a GET /history that follows lists it last.
C13_SuccessAppendsOneRecord ==
    [][/\ (event'.op \in CalcRoutes /\ response'.kind = "responce")
            => /\ Len(store') = Len(store) + 1
               /\ SubSeq(store', 1, Len(store)) = store
               /\ store'[Len(store')] = Record(response')
               /\ \A i \in 1..Len(store) : store[i]._id # response'.uid
               /\ event'.op = "get_calc"
                      => response'.operation = request'.expression
       /\ (event'.op = "get_history" /\ event.op \in CalcRoutes
                                     /\ response.kind = "responce")
            => /\ response'.items # <<>>
               /\ response'.items[Len(response'.items)] = Record(response)]_vars

\* POST 1 / 2.0 answered '0.5' as the second record, after GET 2/1 stored '2'
C13_Witness ==
    /\ event.op = "post_calc"
    /\ response.kind = "responce"
    /\ response.result = <<"0", ".", "5">>
    /\ response.operation = <<"1", "/", "2", ".", "0">>
    /\ Len(store) = 2
    /\ store[1].result = <<"2">>
    /\ store[2]._id = response.uid

\* the computation of the request just served raised
ComputationFails(req) ==
    IF req.method = "GET /calc"
    THEN evaluate_expression(req.expression).kind = "raise"
    ELSE calculate(float_of_number(req.first), float_of_number(req.last),
                   req.operator).kind = "raise"

\* C16: a /calc request whose computation raises leaves the history as it
\* was, and is answered with the error detail, without result and uid.
C16_FailedRequestSavesNothing ==
    [][(event'.op \in CalcRoutes /\ ComputationFails(request'))
            => /\ store' = store
               /\ response'.kind = "detail"
               /\ response'.detail \in {"ValueError", "ZeroDivisionError",
                                        "SyntaxError", "TypeError"}
               /\ response'.result = <<>>
               /\ response'.uid = NoResponse.uid]_vars

\* GET /calc?expression=1/0 answered with a detail, one record stored before
C16_Witness ==
    /\ event.op = "get_calc"
    /\ request.expression = <<"1", "/", "0">>
    /\ response.kind = "detail"
    /\ response.detail = "ZeroDivisionError"
    /\ Len(store) = 1

(***************************************************************************)
(* InputValidator.validate_operation on operation strings                  *)
(***************************************************************************)
OperationWords ==
    valid_operations \cup
        { <<"m","o","d">>, <<"^">>, <<"*","*">>, <<"a","d","d","s">>,
          <<"a"," ","d","d">>, <<"d","i","v">> }
Pads == UNION {[1..k -> {" ", "\t"}] : k \in 0..MaxPad}
OperationInputs ==
    {p \o v \o q : p \in Pads, q \in Pads,
                   v \in {<<>>} \cup UNION {{w, upper(w), Capitalize(w)} :
                                                w \in OperationWords}}

InitValidate ==
    /\ heap = [r \in {SelfRef, CopyRef} |-> <<>>]
    /\ ret = NoRef
    /\ added = <<>>
    /\ running = FALSE
    /\ pc = "idle"
    /\ printed = Msg("")
    /\ input_calls = 0
    /\ event = Ev("init", <<>>, "none")
    /\ expr = <<>>
    /\ outcome = NoOutcome
    /\ store = <<>>
    /\ request \in {[NoRequest EXCEPT !.method = "validate_operation", !.text = t] :
                        t \in OperationInputs}
    /\ response = NoResponse

call_validate_operation ==
    /\ request.method = "validate_operation"
    /\ response.kind = "none"
    /\ \E r \in {validate_operation(request.text)} :
           response' = [NoResponse EXCEPT
                            !.kind = IF r.ok THEN "value" ELSE "raise",
                            !.result = IF r.ok THEN r.op ELSE <<>>,
                            !.detail = r.err]
    /\ event' = Ev("validate_operation", <<>>, "none")
    /\ UNCHANGED <<heap, ret, added, running, pc, printed, input_calls,
                   expr, outcome, store, request>>

NextValidate == call_validate_operation

SpecValidate == InitValidate /\ [][NextValidate]_vars

\* s[i..j] is s without its surrounding whitespace
IsStripped(s, i, j) ==
    /\ \A k \in 1..(i - 1) : s[k] \in {" ", "\t"}
    /\ \A k \in (j + 1)..Len(s) : s[k] \in {" ", "\t"}
    /\ i <= j => (s[i] \notin {" ", "\t"} /\ s[j] \notin {" ", "\t"})

\* t and w are the same up to the case of their letters
SameIgnoringCase(t, w) ==
    /\ Len(t) = Len(w)
    /\ \A k \in 1..Len(t) :
           \/ t[k] = w[k]
           \/ \E c \in 1..26 : {t[k], w[k]} = {UpperChars[c], LowerChars[c]}

\* C14: validate_operation accepts exactly add, subtract, multiply, divide,
\* + - * / compared without regard to case after stripping surrounding
\* whitespace and returns the stripped string in its original case; empty
\* or whitespace-only raises 'Operation cannot be empty', anything else
\* raises 'Unsupported operation'.
C14_ValidateOperation ==
    event.op = "validate_operation" =>
        \A i \in 1..(Len(request.text) + 1), j \in 0..Len(request.text) :
            (i <= j + 1 /\ IsStripped(request.text, i, j)) =>
                LET t == SubSeq(request.text, i, j)
                IN  IF t = <<>>
                    THEN /\ response.kind = "raise"
                         /\ response.detail = "Operation cannot be empty"
                    ELSE IF \E w \in valid_operations : SameIgnoringCase(t, w)
                    THEN /\ response.kind = "value"
                         /\ response.result = t
                    ELSE /\ response.kind = "raise"
                         /\ response.detail = "Unsupported operation"

\* ' Add\t' is accepted and returned as 'Add'
C14_Witness ==
    /\ event.op = "validate_operation"
    /\ request.text = <<" ", "A", "d", "d", "\t">>
    /\ response.kind = "value"
    /\ response.result = <<"A", "d", "d">>

(***************************************************************************)
(* Calculator.start() around an exit command                               *)
(***************************************************************************)
ExitWords == {W_exit, W_quit, W_q}
ClearWords == {W_clear, W_cls}
InputEvents == {"input", "KeyboardInterrupt", "EOFError", "Exception"}

IsPrefix(s, t) == Len(s) <= Len(t) /\ SubSeq(t, 1, Len(s)) = s

\* the step that follows a processed exit command is the return of start(),
\* with no input read and the history as it was, and nothing follows it
NoInputAfterExit ==
    /\ (event'.op = "input" /\ CommandIn(event'.line, ExitWords))
           => (~running' /\ _history' = _history)
    /\ (event.op = "input" /\ CommandIn(event.line, ExitWords))
           => /\ event'.op = "loop_exit"
              /\ event'.op \notin InputEvents
              /\ pc' = "returned"
              /\ _history' = _history
    /\ pc = "returned" => FALSE

\* C15 as stated: after an exit command no input is read or processed and
\* the history stays as it was, and every calculation entered before exit is
\* in the history when start() returns: no step of the loop takes an entry
\* out of the history.
C15_EveryCalculationKept ==
    [][/\ NoInputAfterExit
       /\ pc = "loop" => IsPrefix(_history, _history')]_vars

\* C15: after an exit command no input is read or processed and the history
\* stays as it was until start() returns; every calculation that succeeded
\* since the last clear command is in the history when start() returns: only
\* a clear command takes entries out of the history.
C15_NoInputAfterExit ==
    [][/\ NoInputAfterExit
       /\ (pc = "loop" /\ ~(event'.op = "input" /\ CommandIn(event'.line, ClearWords)))
              => IsPrefix(_history, _history')]_vars

\* start() has returned after an exit command with both calculations kept
C15_Witness ==
    /\ pc = "returned"
    /\ event.op = "loop_exit"
    /\ ~running
    /\ len(_history) = 2

(***************************************************************************)
(* evaluate_expression on constants that are not numbers                   *)
(***************************************************************************)
NonNumericTokens == StrTokens \cup BoolTokens \cup NoneTokens

\* C17: every expression that contains a constant that is not a number (a
\* string, a boolean, None) is rejected with ValueError, and every value
\* evaluate_expression returns is an int or a float computed from numeric
\* literals only.
C17_OnlyNumericConstants ==
    outcome.kind # "none"
        => /\ (ast_parse(expr).ok /\ \E i \in 1..Len(expr) : expr[i] \in NonNumericTokens)
                  => (outcome.kind = "raise" /\ outcome.exc = "ValueError")
           /\ outcome.kind = "value"
                  => /\ outcome.val.t \in {"int", "float"}
                     /\ \A i \in 1..Len(expr) : expr[i] \notin NonNumericTokens

====
